---- MODULE Spec2Model ----
(***************************************************************************)
(* Locker / transaction state machine of laundry_locker_api.py:            *)
(* RFIDLockerSystem.assign_card_to_locker, check_card_already_assigned,    *)
(* process_pickup, unlock_locker, save_data and the Flask handlers         *)
(* drop_off and pick_up that call them.                                    *)
(*                                                                         *)
(* Every handler is written as a chain of steps, one step per access to    *)
(* the shared dictionary self.data (or per blocking call).  A step is an   *)
(* operator from (shared state, handler locals) to the set of possible     *)
(* (shared state, handler locals) outcomes.  Spec runs a whole handler as  *)
(* one action (calls executed one at a time); SpecConc lets the Flask      *)
(* worker threads interleave step by step, as nothing in the source        *)
(* serialises them.  SpecFaults is Spec with a telemetry server that may   *)
(* fail and one card more than there are lockers.                          *)
(*                                                                         *)
(* The card detector (rfid_reader_loop, card_queue, get_last_card,         *)
(* clear_card_queue, initialize_rfid, reset_rfid_reader) is a second       *)
(* group of variables and actions.  SpecDetector runs the detector thread  *)
(* against a reader that reports a card, no card or a fault; SpecCache     *)
(* adds the wall clock and the callers of the cache; SpecReset adds a      *)
(* manual reset request; SpecStart begins where __init__ has started the   *)
(* detector thread but not yet assigned the health attributes.  SpecClear  *)
(* splits a poll from the insertion of its card, the poll being outside    *)
(* card_read_lock.                                                         *)
(*                                                                         *)
(* SpecHold runs drop-off threads while reset_rfid_reader runs             *)
(* initialize_rfid, whose GPIO.cleanup() releases the relay pins as well.  *)
(* SpecDrift runs drop-off threads of one card in two spellings against    *)
(* pick-ups served in one step.                                            *)
(***************************************************************************)
EXTENDS Integers, Sequences, FiniteSets, TLC

VARIABLES
    active_cards,       \* self.data["active_cards"]: card id -> [locker_id, transaction_id]
    transactions,       \* self.data["transactions"]: list of transaction dicts
    available_lockers,  \* self.data["available_lockers"]: list of locker ids
    disk,               \* content of DB_FILE as last written by save_data
    save_errors,        \* number of save_data calls that failed so far
    relay,              \* each locker's relay pin: HIGH (locked), LOW, or IN (released)
    nextId,             \* source of fresh transaction ids (uuid4)
    now,                \* the instant the next datetime.now() returns
    hl,                 \* locals of each request-handler thread
    last,               \* result of the most recently returned call
    card_queue,         \* self.card_queue: list of [card_id, timestamp, read_count]
    hits,               \* per entry of card_queue, the reads it stands for
    clock,              \* wall clock in whole seconds, as read by the detector
    ticks,              \* number of times the clock has advanced
    got,                \* value returned by the latest get_last_card call
    det,                \* locals and position of the rfid_reader_loop thread
    health,             \* self.rfid_errors, self.rfid_reads_*, self.last_successful_read
    init_calls,         \* initialize_rfid calls made by the detector thread
    reset,              \* position and count of reset_rfid_reader requests
    polled              \* a poll has returned a card since the cache was last cleared

\* state of the locker / transaction side
lockerVars == <<active_cards, transactions, available_lockers, disk,
                save_errors, relay, nextId, now, hl, last>>

\* the locker / transaction side without the relays
dataVars == <<active_cards, transactions, available_lockers, disk,
              save_errors, nextId, now, hl, last>>

\* state of the card detector side
detVars == <<card_queue, hits, clock, ticks, got, det, health, init_calls,
             reset, polled>>

vars == <<active_cards, transactions, available_lockers, disk, save_errors,
          relay, nextId, now, hl, last, card_queue, hits, clock, ticks, got,
          det, health, init_calls, reset, polled>>

----------------------------------------------------------------------------
(* Bounds *)

NumLockers == 2        \* lockers configured in relay_pins
MaxTx == 3             \* transactions ever created, calls one at a time
MaxConcTx == 2         \* transactions ever created, concurrent calls
MaxSaveErrors == 1     \* failing writes of DB_FILE
NumHandlers == 2       \* worker threads serving requests
NumReaderCards == 11   \* distinct cards ever presented to the reader
MaxTicks == 2          \* advances of the wall clock
MaxErrors == 41        \* failing polls of the reader
MaxCount == 1          \* value up to which the read statistics are counted
MaxResets == 1         \* reset_rfid_reader requests

----------------------------------------------------------------------------
(* Configuration and inputs *)

\* keys of config["relay_pins"], in dictionary order
LockerIds == [i \in 1..NumLockers |-> ToString(i)]

Lockers == {LockerIds[i] : i \in 1..NumLockers}

\* config["wash_types"]
WashTypes ==
    << [id |-> 1, name |-> "Standard Wash"],
       [id |-> 2, name |-> "Delicate Wash"],
       [id |-> 3, name |-> "Heavy Duty"] >>

\* card ids a request may carry: two spellings of one card that differ in
\* letter case, one with trailing white space, and a second card
Cards == {"A1", "a1", "A1 ", "B2"}

\* wash_type request parameters: an id or a name, known or unknown
WashParams ==
    { [kind |-> "id",   id |-> 1, name |-> ""],
      [kind |-> "id",   id |-> 7, name |-> ""],
      [kind |-> "name", id |-> 0, name |-> "Standard Wash"],
      [kind |-> "name", id |-> 0, name |-> "Quick Wash"] }

\* requests drawn when worker threads interleave
ConcCards == {"A1", "B2"}

ConcWashParams == {w \in WashParams : w.kind = "id"}

\* what the telemetry server does with the call of a request: it answers
\* 200, answers another status, cannot be reached, does not answer in
\* time, or the call fails in another way
Nets == {"200", "500", "ConnectionError", "Timeout", "Exception"}

\* the telemetry server answers every call
ServerUp == {"200"}

\* requests drawn when the telemetry server may fail: one card more than
\* there are lockers
FaultCards == {"A1", "B2", "C3"}

\* requests drawn when drop-offs interleave with pick-ups of the same card:
\* two spellings of one card, one of them with trailing white space
DriftCards == {"A1 ", "a1"}

Handlers == 1..NumHandlers

\* str.strip()
Strip(c) == IF c = "A1 " THEN "A1" ELSE c

\* str.lower()
Lower(c) ==
    CASE c = "A1"  -> "a1"
      [] c = "A1 " -> "a1 "
      [] c = "B2"  -> "b2"
      [] c = "C3"  -> "c3"
      [] OTHER     -> c

----------------------------------------------------------------------------
(* Shared state as one value, and handler locals *)

Data(ac, tx, av) ==
    [active_cards |-> ac, transactions |-> tx, available_lockers |-> av]

Shared ==
    [active_cards |-> active_cards, transactions |-> transactions,
     available_lockers |-> available_lockers, disk |-> disk,
     save_errors |-> save_errors, relay |-> relay, nextId |-> nextId, now |-> now]

NoTxn ==
    [transaction_id |-> 0, card_id |-> "", locker_id |-> "", wash_type |-> 0,
     status |-> "", pickup_time |-> 0]

NoWash == [kind |-> "", id |-> 0, name |-> ""]

Idle ==
    [pc |-> "idle", op |-> "", card |-> "", wash |-> NoWash, card_id |-> "",
     locker_id |-> "", wash_type_id |-> 0, transaction_id |-> 0, idx |-> 0,
     txn |-> NoTxn, ok |-> FALSE, msg |-> "", net |-> "", sync |-> ""]

NoResult == [op |-> "", card |-> "", ok |-> FALSE, msg |-> "", sync |-> ""]

Goto(s, l, pc) == {<<s, [l EXCEPT !.pc = pc]>>}

\* the handler returns: only its result is kept
Return(s, l, ok, msg) ==
    {<<s, [Idle EXCEPT !.pc = "done", !.op = l.op, !.card = l.card,
                       !.sync = l.sync,
                       !.ok = ok, !.msg = msg]>>}

\* the handler ends with an uncaught exception (Flask answers 500)
Raise(s, l, exc) ==
    {<<s, [Idle EXCEPT !.pc = "done", !.op = l.op, !.card = l.card,
                       !.sync = l.sync,
                       !.ok = FALSE, !.msg = exc]>>}

----------------------------------------------------------------------------
(* Collections *)

RECURSIVE IndexOf(_, _, _)
\* list.index from position i on; 0 when absent
IndexOf(seq, x, i) ==
    IF i > Len(seq) THEN 0
    ELSE IF seq[i] = x THEN i
    ELSE IndexOf(seq, x, i + 1)

InList(seq, x) == IndexOf(seq, x, 1) # 0

\* list.remove(x): drops the first occurrence
ListRemove(seq, x) ==
    LET k == IndexOf(seq, x, 1)
    IN  [i \in 1..(Len(seq) - 1) |-> IF i < k THEN seq[i] ELSE seq[i + 1]]

\* d[k] = v
DictSet(d, k, v) == [c \in DOMAIN d \cup {k} |-> IF c = k THEN v ELSE d[c]]

\* del d[k]
DictDel(d, k) == [c \in DOMAIN d \ {k} |-> d[c]]

RECURSIVE FirstIndex(_, _, _)
\* first index i >= from with P[i], 0 when there is none; P is a sequence
\* of booleans computed over the list being scanned
FirstIndex(P, from, n) ==
    IF from > n THEN 0
    ELSE IF P[from] THEN from
    ELSE FirstIndex(P, from + 1, n)

----------------------------------------------------------------------------
(* Persistence and actuator *)

\* DB_FILE after open(DB_FILE, 'w') truncated it and json.dump did not
\* complete: not a JSON document
Torn == [partial |-> TRUE]

\* save_data: json.dump of self.data into DB_FILE; an I/O error is logged
\* and swallowed: when open() raised the file keeps its previous content,
\* when json.dump raised the file is left truncated
SaveData(s) ==
    { [s EXCEPT !.disk = Data(s.active_cards, s.transactions,
                              s.available_lockers)] }
    \cup
    { [s EXCEPT !.save_errors = s.save_errors + 1, !.disk = d] :
          d \in IF s.save_errors < MaxSaveErrors THEN {s.disk, Torn} ELSE {} }

\* unlock_locker up to the hold: relay driven LOW for a configured locker
UnlockHold(s, locker_id) ==
    IF locker_id \in Lockers
    THEN [s EXCEPT !.relay[locker_id] = "LOW"]
    ELSE s

\* unlock_locker after the hold: relay driven HIGH again
UnlockRelease(s, locker_id) ==
    IF locker_id \in Lockers
    THEN [s EXCEPT !.relay[locker_id] = "HIGH"]
    ELSE s

\* GPIO.cleanup: every channel is released and is an input again
Cleanup(r) == [k \in DOMAIN r |-> "IN"]

\* the loop of initialize_rfid over relay_pins: GPIO.setup(pin, GPIO.OUT)
\* and GPIO.output(pin, GPIO.HIGH) for every locker
SetupRelays(r) == [k \in DOMAIN r |-> "HIGH"]

\* GPIO.output on the channel of locker_id raises RuntimeError: the channel
\* is not set up as an output
Released(s, locker_id) ==
    locker_id \in Lockers /\ s.relay[locker_id] = "IN"

\* get_wash_types: the catalog a handler sees (local configuration)
GetWashTypes == WashTypes

\* send_to_server: True when the server answered 200; a connection error,
\* a timeout, another status or any other exception is logged and gives
\* False
SendToServer(net) == net = "200"

\* what became of the telemetry call of a request
Sync(net) == IF SendToServer(net) THEN "sent" ELSE "failed"

----------------------------------------------------------------------------
(* drop_off and assign_card_to_locker *)

\* CheckCardAlreadyAssigned without the scan of the transactions
CheckCardActiveOnly(s, card_id) ==
    LET card_id_str == Strip(card_id)
        card_id_lower == Lower(card_id_str)
    IN  \/ card_id_str \in DOMAIN s.active_cards
        \/ \E active_card \in DOMAIN s.active_cards :
               Lower(active_card) = card_id_lower

\* check_card_already_assigned
CheckCardAlreadyAssigned(s, card_id) ==
    LET card_id_str == Strip(card_id)
        card_id_lower == Lower(card_id_str)
    IN  \/ card_id_str \in DOMAIN s.active_cards
        \/ \E active_card \in DOMAIN s.active_cards :
               Lower(active_card) = card_id_lower
        \/ \E i \in 1..Len(s.transactions) :
               /\ s.transactions[i].status # "completed"
               /\ Lower(Strip(s.transactions[i].card_id)) = card_id_lower

\* DropOffCheck looking at the pool before it looks at the card
DropOffCheckPoolFirst(s, l) ==
    LET card_id == Strip(l.card)
    IN  IF Len(s.available_lockers) = 0
        THEN Return(s, l, FALSE, "No lockers available")
        ELSE IF CheckCardAlreadyAssigned(s, card_id)
        THEN Return(s, l, FALSE, "This card already has clothes in locker")
        ELSE Goto(s, l, "do_pool")

\* drop_off: normalise the card id, refuse a card that is already assigned
DropOffCheck(s, l) ==
    LET card_id == Strip(l.card)
    IN  IF CheckCardAlreadyAssigned(s, card_id)
        THEN Return(s, l, FALSE, "This card already has clothes in locker")
        ELSE Goto(s, l, "do_pool")

\* DropOffPool taking the last locker of the pool instead of the first
DropOffPoolLast(s, l) ==
    IF Len(s.available_lockers) = 0
    THEN Return(s, l, FALSE, "No lockers available")
    ELSE Goto(s, [l EXCEPT !.locker_id =
                               s.available_lockers[Len(s.available_lockers)]],
              "do_wash")

\* drop_off: refuse when the pool is empty, else take the first free locker
DropOffPool(s, l) ==
    IF Len(s.available_lockers) = 0
    THEN Return(s, l, FALSE, "No lockers available")
    ELSE Goto(s, [l EXCEPT !.locker_id = s.available_lockers[1]], "do_wash")

\* drop_off: resolve the wash_type parameter to an id; a name is looked up
\* in the catalog
DropOffWash(s, l) ==
    IF l.wash.kind = "id"
    THEN Goto(s, [l EXCEPT !.wash_type_id = l.wash.id, !.wash = NoWash],
              "as_check")
    ELSE LET P == [i \in 1..Len(GetWashTypes) |->
                       GetWashTypes[i].name = l.wash.name]
             k == FirstIndex(P, 1, Len(GetWashTypes))
         IN  IF k = 0
             THEN Return(s, l, FALSE, "Invalid wash type")
             ELSE Goto(s, [l EXCEPT !.wash_type_id = GetWashTypes[k].id,
                                    !.wash = NoWash],
                       "as_check")

\* assign_card_to_locker: normalise the card id and check it again
AssignCheck(s, l) ==
    LET card_id == Strip(l.card)
    IN  IF CheckCardAlreadyAssigned(s, card_id)
        THEN Return(s, l, FALSE, "Card already assigned to another locker")
        ELSE Goto(s, [l EXCEPT !.card_id = card_id], "as_avail")

\* assign_card_to_locker: the chosen locker must still be in the pool
AssignAvail(s, l) ==
    IF ~InList(s.available_lockers, l.locker_id)
    THEN Return(s, l, FALSE, "Locker not available")
    ELSE Goto(s, l, "as_wash")

\* AssignWash recording the active card before the wash type is validated
AssignWashLate(s, l) ==
    LET P == [i \in 1..Len(GetWashTypes) |->
                  GetWashTypes[i].id = l.wash_type_id]
        k == FirstIndex(P, 1, Len(GetWashTypes))
        t == [s EXCEPT !.active_cards =
                           DictSet(s.active_cards, l.card_id,
                                   [locker_id |-> l.locker_id,
                                    transaction_id |-> s.nextId])]
    IN  IF k = 0
        THEN Return(t, l, FALSE, "Invalid wash type")
        ELSE Goto(s, l, "as_active")

\* assign_card_to_locker: fetch the catalog and select the wash type
AssignWash(s, l) ==
    LET P == [i \in 1..Len(GetWashTypes) |->
                  GetWashTypes[i].id = l.wash_type_id]
        k == FirstIndex(P, 1, Len(GetWashTypes))
    IN  IF k = 0
        THEN Return(s, l, FALSE, "Invalid wash type")
        ELSE Goto(s, l, "as_active")

\* LockerTransaction created with status processing
LockerTransactionProcessing(s, card_id, locker_id, wash_type) ==
    [transaction_id |-> s.nextId, card_id |-> card_id,
     locker_id |-> locker_id, wash_type |-> wash_type,
     status |-> "processing", pickup_time |-> 0]

\* LockerTransaction.__init__ and to_dict
LockerTransaction(s, card_id, locker_id, wash_type) ==
    [transaction_id |-> s.nextId, card_id |-> card_id,
     locker_id |-> locker_id, wash_type |-> wash_type, status |-> "pending",
     pickup_time |-> 0]

\* assign_card_to_locker: create the transaction, record the active card
AssignActive(s, l) ==
    LET transaction ==
            LockerTransaction(s, l.card_id, l.locker_id, l.wash_type_id)
    IN  Goto([s EXCEPT
                 !.nextId = s.nextId + 1,
                 !.active_cards =
                     DictSet(s.active_cards, l.card_id,
                             [locker_id |-> l.locker_id,
                              transaction_id |-> transaction.transaction_id])],
             [l EXCEPT !.txn = transaction,
                       !.transaction_id = transaction.transaction_id],
             "as_remove")

\* AssignRemove leaving the locker in the pool
AssignRemoveSkipped(s, l) == Goto(s, l, "as_append")

\* assign_card_to_locker: take the locker out of the pool
AssignRemove(s, l) ==
    IF InList(s.available_lockers, l.locker_id)
    THEN Goto([s EXCEPT !.available_lockers =
                            ListRemove(s.available_lockers, l.locker_id)],
              l, "as_append")
    ELSE Goto(s, l, "as_append")

\* AssignAppend leaving the transaction out of the history
AssignAppendSkipped(s, l) == Goto(s, l, "as_save")

\* assign_card_to_locker: append the transaction to the history
AssignAppend(s, l) ==
    Goto([s EXCEPT !.transactions = Append(s.transactions, l.txn)],
         l, "as_save")

\* AssignSave answering "System error" when the telemetry call fails
AssignSaveChecked(s, l) ==
    UNION {IF SendToServer(l.net)
           THEN Goto(t, [l EXCEPT !.sync = Sync(l.net)], "do_unlock")
           ELSE Return(t, [l EXCEPT !.sync = Sync(l.net)], FALSE,
                       "System error") :
               t \in SaveData(s)}

\* assign_card_to_locker: persist, then send_to_server("new_transaction"),
\* whose return value is dropped and which touches none of the state
AssignSave(s, l) ==
    UNION {Goto(t, [l EXCEPT !.sync = Sync(l.net)], "do_unlock") :
               t \in SaveData(s)}

\* drop_off: unlock_locker drives the relay LOW and holds; nothing catches
\* the RuntimeError of a released channel
DropOffUnlock(s, l) ==
    IF Released(s, l.locker_id) THEN Raise(s, l, "RuntimeError")
    ELSE Goto(UnlockHold(s, l.locker_id), l, "do_relock")

\* drop_off: unlock_locker drives the relay HIGH; the handler answers
DropOffRelock(s, l) ==
    IF Released(s, l.locker_id) THEN Raise(s, l, "RuntimeError")
    ELSE Return(UnlockRelease(s, l.locker_id), l, TRUE,
                "Card assigned to locker")

----------------------------------------------------------------------------
(* pick_up and process_pickup *)

\* ResolveCard by exact match only
ResolveCardExact(s, card_id_str) ==
    IF card_id_str \in DOMAIN s.active_cards THEN card_id_str ELSE ""

\* the key of active_cards a presented card id resolves to ("" when none):
\* the id itself, else the first key equal to it ignoring letter case (with
\* the card ids of Cards at most one key can qualify)
ResolveCard(s, card_id_str) ==
    IF card_id_str \in DOMAIN s.active_cards THEN card_id_str
    ELSE IF \E k \in DOMAIN s.active_cards : Lower(k) = Lower(card_id_str)
         THEN CHOOSE k \in DOMAIN s.active_cards :
                  Lower(k) = Lower(card_id_str)
         ELSE ""

\* PickupResolve without the early return for an unknown card
PickupResolveUnchecked(s, l) ==
    LET card_id_str == ResolveCard(s, l.card)
    IN  Goto(s, [l EXCEPT !.card_id =
                              IF card_id_str = "" THEN l.card
                              ELSE card_id_str],
             "pu_read")

\* process_pickup: look the card up in active_cards
PickupResolve(s, l) ==
    LET card_id_str == ResolveCard(s, l.card)
    IN  IF card_id_str = ""
        THEN Return(s, l, FALSE, "Card not associated with any locker")
        ELSE Goto(s, [l EXCEPT !.card_id = card_id_str], "pu_read")

\* process_pickup: read the assignment's locker and transaction id
PickupRead(s, l) ==
    IF l.card_id \notin DOMAIN s.active_cards
    THEN Raise(s, l, "KeyError")
    ELSE Goto(s, [l EXCEPT
                     !.locker_id = s.active_cards[l.card_id].locker_id,
                     !.transaction_id =
                         s.active_cards[l.card_id].transaction_id],
              "pu_find")

\* status and pickup_time of entry i are written; datetime.now() is read,
\* and every later read returns a later instant
Complete(s, i) ==
    [s EXCEPT !.transactions[i].status = "completed",
              !.transactions[i].pickup_time = s.now,
              !.now = s.now + 1]

\* process_pickup, primary path: find the transaction by its id and
\* complete it; without a match go on to the fallbacks
PickupFind(s, l) ==
    LET P == [i \in 1..Len(s.transactions) |->
                  s.transactions[i].transaction_id = l.transaction_id]
        i == FirstIndex(P, 1, Len(s.transactions))
    IN  IF i # 0
        THEN Goto(Complete(s, i), [l EXCEPT !.idx = i], "pu_unlock")
        ELSE Goto(s, l, "fa_find")

\* process_pickup, primary path: unlock_locker drives the relay LOW, holds
PickupUnlock(s, l) ==
    IF Released(s, l.locker_id) THEN Raise(s, l, "RuntimeError")
    ELSE Goto(UnlockHold(s, l.locker_id), l, "pu_relock")

\* process_pickup, primary path: unlock_locker drives the relay HIGH
PickupRelock(s, l) ==
    IF Released(s, l.locker_id) THEN Raise(s, l, "RuntimeError")
    ELSE Goto(UnlockRelease(s, l.locker_id), l, "pu_del")

\* PickupDel leaving the active card in place
PickupDelSkipped(s, l) == Goto(s, l, "pu_return")

\* process_pickup, primary path: del active_cards[card]
PickupDel(s, l) ==
    IF l.card_id \notin DOMAIN s.active_cards
    THEN Raise(s, l, "KeyError")
    ELSE Goto([s EXCEPT !.active_cards = DictDel(s.active_cards, l.card_id)],
              l, "pu_return")

\* the locker goes back to the pool unless it is listed already
ReturnLocker(s, locker_id) ==
    IF ~InList(s.available_lockers, locker_id)
    THEN [s EXCEPT !.available_lockers = Append(s.available_lockers, locker_id)]
    ELSE s

\* process_pickup, primary path: return the locker to the pool
PickupReturn(s, l) == Goto(ReturnLocker(s, l.locker_id), l, "pu_save")

\* PickupSave answering failure when the write of DB_FILE failed
PickupSaveStrict(s, l) ==
    UNION {IF t.save_errors # s.save_errors
           THEN Return(t, [l EXCEPT !.sync = Sync(l.net)], FALSE,
                       "System error")
           ELSE Return(t, [l EXCEPT !.sync = Sync(l.net)], TRUE,
                       "Clothes picked up from locker") :
               t \in SaveData(s)}

\* process_pickup, primary path: persist, then
\* send_to_server("pickup_complete"), whose return value is dropped; the
\* handler answers
PickupSave(s, l) ==
    UNION {Return(t, [l EXCEPT !.sync = Sync(l.net)], TRUE,
                  "Clothes picked up from locker") :
               t \in SaveData(s)}

\* process_pickup, fallback by card id: first transaction of the card that
\* is not completed; it supplies the locker id
FallbackFind(s, l) ==
    LET P == [i \in 1..Len(s.transactions) |->
                  /\ s.transactions[i].card_id = l.card_id
                  /\ s.transactions[i].status # "completed"]
        i == FirstIndex(P, 1, Len(s.transactions))
    IN  IF i # 0
        THEN Goto(Complete(s, i),
                  [l EXCEPT !.idx = i,
                            !.transaction_id =
                                s.transactions[i].transaction_id,
                            !.locker_id = s.transactions[i].locker_id],
                  "fa_unlock")
        ELSE Goto(s, l, "fb_reset")

\* process_pickup, fallback by card id: relay LOW, hold
FallbackUnlock(s, l) ==
    IF Released(s, l.locker_id) THEN Raise(s, l, "RuntimeError")
    ELSE Goto(UnlockHold(s, l.locker_id), l, "fa_relock")

\* process_pickup, fallback by card id: relay HIGH
FallbackRelock(s, l) ==
    IF Released(s, l.locker_id) THEN Raise(s, l, "RuntimeError")
    ELSE Goto(UnlockRelease(s, l.locker_id), l, "fa_del")

\* process_pickup, fallback by card id: drop the active card if it is there
FallbackDel(s, l) ==
    IF l.card_id \in DOMAIN s.active_cards
    THEN Goto([s EXCEPT !.active_cards = DictDel(s.active_cards, l.card_id)],
              l, "fa_return")
    ELSE Goto(s, l, "fa_return")

\* process_pickup, fallback by card id: return the locker to the pool
FallbackReturn(s, l) == Goto(ReturnLocker(s, l.locker_id), l, "fa_save")

\* process_pickup, fallback by card id: persist and answer
FallbackSave(s, l) ==
    UNION {Return(t, l, TRUE, "Clothes picked up from locker (fallback)") :
               t \in SaveData(s)}

\* PickupReset leaving the locker out of the pool
PickupResetKeepsLocker(s, l) ==
    IF l.card_id \in DOMAIN s.active_cards
    THEN LET t == [s EXCEPT !.active_cards =
                                DictDel(s.active_cards, l.card_id)]
         IN  UNION {Return(u, l, TRUE, "Locker unlocked and reset") :
                        u \in SaveData(t)}
    ELSE Return(s, l, FALSE, "Transaction not found")

\* process_pickup, reset: no transaction at all; drop the active card,
\* free its locker, persist
PickupReset(s, l) ==
    IF l.card_id \in DOMAIN s.active_cards
    THEN LET locker_id == s.active_cards[l.card_id].locker_id
             t == ReturnLocker(
                      [s EXCEPT !.active_cards =
                                    DictDel(s.active_cards, l.card_id)],
                      locker_id)
         IN  UNION {Return(u, l, TRUE, "Locker unlocked and reset") :
                        u \in SaveData(t)}
    ELSE Return(s, l, FALSE, "Transaction not found")

----------------------------------------------------------------------------
(* Handlers as step chains *)

\* locals of drop_off on entry
StartDropOff(card, wash, net) ==
    [Idle EXCEPT !.pc = "do_check", !.op = "drop_off", !.card = card,
                 !.wash = wash, !.net = net]

\* locals of pick_up on entry
StartPickUp(card, net) ==
    [Idle EXCEPT !.pc = "pu_resolve", !.op = "pick_up", !.card = card,
                 !.net = net]

\* the step a handler takes at its current position
Step(s, l) ==
    CASE l.pc = "do_check"   -> DropOffCheck(s, l)
      [] l.pc = "do_pool"    -> DropOffPool(s, l)
      [] l.pc = "do_wash"    -> DropOffWash(s, l)
      [] l.pc = "as_check"   -> AssignCheck(s, l)
      [] l.pc = "as_avail"   -> AssignAvail(s, l)
      [] l.pc = "as_wash"    -> AssignWash(s, l)
      [] l.pc = "as_active"  -> AssignActive(s, l)
      [] l.pc = "as_remove"  -> AssignRemove(s, l)
      [] l.pc = "as_append"  -> AssignAppend(s, l)
      [] l.pc = "as_save"    -> AssignSave(s, l)
      [] l.pc = "do_unlock"  -> DropOffUnlock(s, l)
      [] l.pc = "do_relock"  -> DropOffRelock(s, l)
      [] l.pc = "pu_resolve" -> PickupResolve(s, l)
      [] l.pc = "pu_read"    -> PickupRead(s, l)
      [] l.pc = "pu_find"    -> PickupFind(s, l)
      [] l.pc = "pu_unlock"  -> PickupUnlock(s, l)
      [] l.pc = "pu_relock"  -> PickupRelock(s, l)
      [] l.pc = "pu_del"     -> PickupDel(s, l)
      [] l.pc = "pu_return"  -> PickupReturn(s, l)
      [] l.pc = "pu_save"    -> PickupSave(s, l)
      [] l.pc = "fa_find"    -> FallbackFind(s, l)
      [] l.pc = "fa_unlock"  -> FallbackUnlock(s, l)
      [] l.pc = "fa_relock"  -> FallbackRelock(s, l)
      [] l.pc = "fa_del"     -> FallbackDel(s, l)
      [] l.pc = "fa_return"  -> FallbackReturn(s, l)
      [] l.pc = "fa_save"    -> FallbackSave(s, l)
      [] l.pc = "fb_reset"   -> PickupReset(s, l)
      [] OTHER               -> {}

RECURSIVE Run(_, _)
\* a handler run from its current position to its end without interruption
Run(s, l) ==
    IF l.pc = "done" THEN {<<s, l>>}
    ELSE UNION {Run(o[1], o[2]) : o \in Step(s, l)}

\* what the caller of a finished handler gets
Result(l) ==
    [op |-> l.op, card |-> l.card, ok |-> l.ok, msg |-> l.msg,
     sync |-> l.sync]

\* the shared state after a step
Commit(s) ==
    /\ active_cards' = s.active_cards
    /\ transactions' = s.transactions
    /\ available_lockers' = s.available_lockers
    /\ disk' = s.disk
    /\ save_errors' = s.save_errors
    /\ relay' = s.relay
    /\ nextId' = s.nextId
    /\ now' = s.now

----------------------------------------------------------------------------
(* Card detector: constants of rfid_reader_loop and get_last_card *)

QueueCap == 10                \* entries kept in self.card_queue
DedupWindow == 2              \* seconds within which a re-read is a duplicate
card_validity_window == 30    \* config["card_validity_window"], seconds
BaseInterval == 100000        \* read_interval = 0.1 s, in microseconds
FastInterval == 50000         \* read_interval = 0.05 s, in microseconds
BackoffCap == 5               \* min(consecutive_errors, 5)
WarningBelow == 5             \* consecutive_errors < 5: warning
ErrorBelow == 20              \* consecutive_errors < 20: error
ReinitEvery == 20             \* consecutive_errors % 20 == 0
ShortDelay == 500000          \* time.sleep(0.5), in microseconds
MediumDelay == 1000000        \* time.sleep(1), in microseconds
LongDelay == 2000000          \* time.sleep(2), in microseconds

\* instants the wall clock can show
Instants == 0..(MaxTicks * card_validity_window)

\* ids the reader hardware can report
ReaderIds == 1..NumReaderCards

\* datetime.isoformat()
IsoFormat(t) == ToString(t)

\* datetime.fromisoformat()
FromIsoFormat(str) == CHOOSE t \in Instants : ToString(t) = str

\* (now - fromisoformat(entry["timestamp"])).total_seconds()
SecondsDiff(entry, t) == t - FromIsoFormat(entry.timestamp)

\* the value get_last_card returns: a queue entry or None
None == [card_id |-> "", timestamp |-> "", read_count |-> 0]

\* no get_last_card call has just returned
NotCalled == [card_id |-> "-", timestamp |-> "", read_count |-> 0]

\* rfid_reader_loop, duplicate scan: position of the first entry of card_id
\* read less than 2 seconds before t, 0 when there is none
DuplicateIndex(queue, card_id, t) ==
    FirstIndex([i \in 1..Len(queue) |->
                   /\ queue[i].card_id = card_id
                   /\ SecondsDiff(queue[i], t) < DedupWindow],
               1, Len(queue))

\* rfid_reader_loop on a duplicate: what becomes of the entry found
Refreshed(entry, t) == [entry EXCEPT !.timestamp = IsoFormat(t)]

\* rfid_reader_loop, capacity rule: list.pop(0) once the list is longer
\* than 10
Trim(queue) == IF Len(queue) > QueueCap THEN Tail(queue) ELSE queue

\* rfid_reader_loop under card_read_lock: the queue after card_id was read
\* at instant t
Enqueue(queue, card_id, t) ==
    LET k == DuplicateIndex(queue, card_id, t)
    IN  Trim(IF k # 0
             THEN [queue EXCEPT ![k] = Refreshed(queue[k], t)]
             ELSE Append(queue, [card_id |-> card_id,
                                 timestamp |-> IsoFormat(t),
                                 read_count |-> 1]))

\* the reads each entry stands for, kept alongside Enqueue (counted up to 2)
Counted(queue, h, card_id, t) ==
    LET k == DuplicateIndex(queue, card_id, t)
        n == IF k # 0 THEN [h EXCEPT ![k] = 2] ELSE Append(h, 1)
    IN  IF Len(n) > QueueCap THEN Tail(n) ELSE n

\* get_last_card, first scan: the last position holding an entry read more
\* than once and not older than the validity window, 0 when there is none
RECURSIVE MultiReadIndex(_, _, _)
MultiReadIndex(queue, t, i) ==
    IF i < 1 THEN 0
    ELSE IF /\ queue[i].read_count > 1
            /\ SecondsDiff(queue[i], t) <= card_validity_window
         THEN i
         ELSE MultiReadIndex(queue, t, i - 1)

\* get_last_card under card_read_lock, called at instant t
GetLastCardAt(queue, t) ==
    IF Len(queue) = 0 THEN None
    ELSE LET m == MultiReadIndex(queue, t, Len(queue))
         IN  IF m # 0 THEN queue[m]
             ELSE IF SecondsDiff(queue[Len(queue)], t) <= card_validity_window
                  THEN queue[Len(queue)]
                  ELSE None

\* read_interval * (1 + min(consecutive_errors, 5))
CurrentInterval(read_interval, consecutive_errors) ==
    read_interval * (1 + (IF consecutive_errors < BackoffCap
                          THEN consecutive_errors ELSE BackoffCap))

\* Relaxed without the cap at the base interval
RelaxedUncapped(read_interval) == (read_interval * 11) \div 10

\* min(read_interval * 1.1, 0.1), in whole microseconds
Relaxed(read_interval) ==
    LET r == (read_interval * 11) \div 10
    IN  IF r < BaseInterval THEN r ELSE BaseInterval

\* initialize_rfid called at every failure from the 20th on
ReinitDueEachTime(consecutive_errors) == consecutive_errors >= ErrorBelow

\* the condition under which a failing poll calls initialize_rfid
ReinitDue(consecutive_errors) ==
    /\ consecutive_errors >= ErrorBelow
    /\ consecutive_errors % ReinitEvery = 0

\* the `except Exception` block: time slept by the loop after the failing
\* poll that made the streak n long (the sleep inside initialize_rfid not
\* counted)
Backoff(n) ==
    IF n < WarningBelow THEN ShortDelay
    ELSE IF n < ErrorBelow THEN MediumDelay
    ELSE IF ReinitDue(n) THEN LongDelay + LongDelay
    ELSE LongDelay

\* locals of rfid_reader_loop when it reaches `while True`; event is what
\* the latest poll ended with: a card, none, or the severity logged for a
\* failure
DetectorStart ==
    [pc |-> "top", consecutive_errors |-> 0, last_successful_read |-> 0,
     read_interval |-> BaseInterval, current_interval |-> 0, slept |-> 0,
     event |-> "", card_id |-> ""]

\* Failed backing off by the short delay whatever the streak
FailedFlat(d) ==
    LET n == d.consecutive_errors + 1
    IN  [d EXCEPT
           !.consecutive_errors = n,
           !.event = IF n < WarningBelow THEN "warning"
                     ELSE IF n < ErrorBelow THEN "error"
                     ELSE "critical",
           !.slept = IF ReinitDue(n) THEN d.slept ELSE ShortDelay,
           !.pc = IF ReinitDue(n) THEN "reinit" ELSE "top"]

\* locals after the `except Exception` block ran on the locals d
Failed(d) ==
    LET n == d.consecutive_errors + 1
    IN  [d EXCEPT
           !.consecutive_errors = n,
           !.event = IF n < WarningBelow THEN "warning"
                     ELSE IF n < ErrorBelow THEN "error"
                     ELSE "critical",
           !.slept = IF n < WarningBelow THEN ShortDelay
                     ELSE IF n < ErrorBelow THEN MediumDelay
                     ELSE IF ReinitDue(n) THEN d.slept
                     ELSE LongDelay,
           !.pc = IF ReinitDue(n) THEN "reinit" ELSE "top"]

\* the health attributes once __init__ has returned; assigned counts the
\* assignments of lines 161-164 executed so far, reader counts the
\* SimpleMFRC522 objects created after the one __init__ made, and -1
\* stands for None
HealthStart ==
    [assigned |-> 4, last_successful_read |-> -1, rfid_errors |-> 0,
     rfid_reads_attempted |-> 0, rfid_reads_successful |-> 0, reader |-> 0]

\* the health attributes when __init__ has just started the detector
\* thread: none of them exists yet
HealthUnset ==
    [assigned |-> 0, last_successful_read |-> -1, rfid_errors |-> -1,
     rfid_reads_attempted |-> -1, rfid_reads_successful |-> -1, reader |-> 0]

\* n += 1 on a statistic that is counted up to MaxCount
Bump(n) == IF n < MaxCount THEN n + 1 ELSE n

----------------------------------------------------------------------------
(* Initial state: load_data with no DB_FILE, RFIDLockerSystem.__init__ *)

Constructed(attrs) ==
    /\ active_cards = << >>
    /\ transactions = << >>
    /\ available_lockers = LockerIds
    /\ disk = Data(<< >>, << >>, LockerIds)
    /\ save_errors = 0
    /\ relay = [k \in Lockers |-> "HIGH"]
    /\ nextId = 1
    /\ now = 1
    /\ hl = [h \in Handlers |-> Idle]
    /\ last = NoResult
    /\ card_queue = << >>
    /\ hits = << >>
    /\ clock = 0
    /\ ticks = 0
    /\ got = NotCalled
    /\ det = DetectorStart
    /\ health = attrs
    /\ init_calls = 0
    /\ reset = [pc |-> "idle", calls |-> 0, ok |-> FALSE]
    /\ polled = FALSE

\* __init__ has returned
Init == Constructed(HealthStart)

\* __init__ has just started the detector thread (line 158)
InitStart == Constructed(HealthUnset)

----------------------------------------------------------------------------
(* Calls executed one at a time *)

\* POST /api/drop-off served from request to response
DropOff(card, wash, net) ==
    /\ nextId <= MaxTx
    /\ \E o \in Run(Shared, StartDropOff(card, wash, net)) :
           /\ Commit(o[1])
           /\ last' = Result(o[2])
    /\ UNCHANGED hl
    /\ UNCHANGED detVars

\* POST /api/pick-up served from request to response
PickUp(card, net) ==
    /\ \E o \in Run(Shared, StartPickUp(card, net)) :
           /\ Commit(o[1])
           /\ last' = Result(o[2])
    /\ UNCHANGED hl
    /\ UNCHANGED detVars

Next ==
    \/ \E card \in Cards, wash \in WashParams, net \in ServerUp :
           DropOff(card, wash, net)
    \/ \E card \in Cards, net \in ServerUp : PickUp(card, net)

Spec == Init /\ [][Next]_vars

\* calls one at a time while the telemetry server may fail
NextFaults ==
    \/ \E card \in FaultCards, wash \in WashParams, net \in Nets :
           DropOff(card, wash, net)
    \/ \E card \in FaultCards, net \in Nets : PickUp(card, net)

SpecFaults == Init /\ [][NextFaults]_vars

----------------------------------------------------------------------------
(* Calls served by concurrent worker threads *)

\* drop_off requests that have not yet drawn their transaction id
Pending == {h \in Handlers : hl[h].op = "drop_off" /\ hl[h].transaction_id = 0}

\* a worker thread takes a drop-off request
BeginDropOff(h, card, wash, net) ==
    /\ hl[h].pc = "idle"
    /\ nextId + Cardinality(Pending) <= MaxConcTx
    /\ hl' = [hl EXCEPT ![h] = StartDropOff(card, wash, net)]
    /\ UNCHANGED <<active_cards, transactions, available_lockers, disk,
                   save_errors, relay, nextId, now, last>>
    /\ UNCHANGED detVars

\* a worker thread takes a pick-up request
BeginPickUp(h, card, net) ==
    /\ hl[h].pc = "idle"
    /\ hl' = [hl EXCEPT ![h] = StartPickUp(card, net)]
    /\ UNCHANGED <<active_cards, transactions, available_lockers, disk,
                   save_errors, relay, nextId, now, last>>
    /\ UNCHANGED detVars

\* thread h takes a step with one of the outcomes outs
Take(h, outs) ==
    /\ \E o \in outs :
           /\ Commit(o[1])
           /\ IF o[2].pc = "done"
              THEN hl' = [hl EXCEPT ![h] = Idle] /\ last' = Result(o[2])
              ELSE hl' = [hl EXCEPT ![h] = o[2]] /\ UNCHANGED last
    /\ UNCHANGED detVars

\* one action per step of drop_off / assign_card_to_locker and of
\* pick_up / process_pickup
ThreadDropOffCheck(h) ==
    hl[h].pc = "do_check" /\ Take(h, DropOffCheck(Shared, hl[h]))
ThreadDropOffPool(h) ==
    hl[h].pc = "do_pool" /\ Take(h, DropOffPool(Shared, hl[h]))
ThreadDropOffWash(h) ==
    hl[h].pc = "do_wash" /\ Take(h, DropOffWash(Shared, hl[h]))
ThreadAssignCheck(h) ==
    hl[h].pc = "as_check" /\ Take(h, AssignCheck(Shared, hl[h]))
ThreadAssignAvail(h) ==
    hl[h].pc = "as_avail" /\ Take(h, AssignAvail(Shared, hl[h]))
ThreadAssignWash(h) ==
    hl[h].pc = "as_wash" /\ Take(h, AssignWash(Shared, hl[h]))
ThreadAssignActive(h) ==
    hl[h].pc = "as_active" /\ Take(h, AssignActive(Shared, hl[h]))
ThreadAssignRemove(h) ==
    hl[h].pc = "as_remove" /\ Take(h, AssignRemove(Shared, hl[h]))
ThreadAssignAppend(h) ==
    hl[h].pc = "as_append" /\ Take(h, AssignAppend(Shared, hl[h]))
ThreadAssignSave(h) ==
    hl[h].pc = "as_save" /\ Take(h, AssignSave(Shared, hl[h]))
ThreadDropOffUnlock(h) ==
    hl[h].pc = "do_unlock" /\ Take(h, DropOffUnlock(Shared, hl[h]))
ThreadDropOffRelock(h) ==
    hl[h].pc = "do_relock" /\ Take(h, DropOffRelock(Shared, hl[h]))
ThreadPickupResolve(h) ==
    hl[h].pc = "pu_resolve" /\ Take(h, PickupResolve(Shared, hl[h]))
ThreadPickupRead(h) ==
    hl[h].pc = "pu_read" /\ Take(h, PickupRead(Shared, hl[h]))
ThreadPickupFind(h) ==
    hl[h].pc = "pu_find" /\ Take(h, PickupFind(Shared, hl[h]))
ThreadPickupUnlock(h) ==
    hl[h].pc = "pu_unlock" /\ Take(h, PickupUnlock(Shared, hl[h]))
ThreadPickupRelock(h) ==
    hl[h].pc = "pu_relock" /\ Take(h, PickupRelock(Shared, hl[h]))
ThreadPickupDel(h) ==
    hl[h].pc = "pu_del" /\ Take(h, PickupDel(Shared, hl[h]))
ThreadPickupReturn(h) ==
    hl[h].pc = "pu_return" /\ Take(h, PickupReturn(Shared, hl[h]))
ThreadPickupSave(h) ==
    hl[h].pc = "pu_save" /\ Take(h, PickupSave(Shared, hl[h]))
ThreadFallbackFind(h) ==
    hl[h].pc = "fa_find" /\ Take(h, FallbackFind(Shared, hl[h]))
ThreadFallbackUnlock(h) ==
    hl[h].pc = "fa_unlock" /\ Take(h, FallbackUnlock(Shared, hl[h]))
ThreadFallbackRelock(h) ==
    hl[h].pc = "fa_relock" /\ Take(h, FallbackRelock(Shared, hl[h]))
ThreadFallbackDel(h) ==
    hl[h].pc = "fa_del" /\ Take(h, FallbackDel(Shared, hl[h]))
ThreadFallbackReturn(h) ==
    hl[h].pc = "fa_return" /\ Take(h, FallbackReturn(Shared, hl[h]))
ThreadFallbackSave(h) ==
    hl[h].pc = "fa_save" /\ Take(h, FallbackSave(Shared, hl[h]))
ThreadPickupReset(h) ==
    hl[h].pc = "fb_reset" /\ Take(h, PickupReset(Shared, hl[h]))

NextConc ==
    \/ \E h \in Handlers, card \in ConcCards, wash \in ConcWashParams,
          net \in ServerUp :
           BeginDropOff(h, card, wash, net)
    \/ \E h \in Handlers, card \in ConcCards, net \in ServerUp :
           BeginPickUp(h, card, net)
    \/ \E h \in Handlers : ThreadDropOffCheck(h)
    \/ \E h \in Handlers : ThreadDropOffPool(h)
    \/ \E h \in Handlers : ThreadDropOffWash(h)
    \/ \E h \in Handlers : ThreadAssignCheck(h)
    \/ \E h \in Handlers : ThreadAssignAvail(h)
    \/ \E h \in Handlers : ThreadAssignWash(h)
    \/ \E h \in Handlers : ThreadAssignActive(h)
    \/ \E h \in Handlers : ThreadAssignRemove(h)
    \/ \E h \in Handlers : ThreadAssignAppend(h)
    \/ \E h \in Handlers : ThreadAssignSave(h)
    \/ \E h \in Handlers : ThreadDropOffUnlock(h)
    \/ \E h \in Handlers : ThreadDropOffRelock(h)
    \/ \E h \in Handlers : ThreadPickupResolve(h)
    \/ \E h \in Handlers : ThreadPickupRead(h)
    \/ \E h \in Handlers : ThreadPickupFind(h)
    \/ \E h \in Handlers : ThreadPickupUnlock(h)
    \/ \E h \in Handlers : ThreadPickupRelock(h)
    \/ \E h \in Handlers : ThreadPickupDel(h)
    \/ \E h \in Handlers : ThreadPickupReturn(h)
    \/ \E h \in Handlers : ThreadPickupSave(h)
    \/ \E h \in Handlers : ThreadFallbackFind(h)
    \/ \E h \in Handlers : ThreadFallbackUnlock(h)
    \/ \E h \in Handlers : ThreadFallbackRelock(h)
    \/ \E h \in Handlers : ThreadFallbackDel(h)
    \/ \E h \in Handlers : ThreadFallbackReturn(h)
    \/ \E h \in Handlers : ThreadFallbackSave(h)
    \/ \E h \in Handlers : ThreadPickupReset(h)

SpecConc == Init /\ [][NextConc]_vars

----------------------------------------------------------------------------
(* Card detector thread: one iteration of rfid_reader_loop is PollStart     *)
(* followed by ReadCard, ReadNone or ReadFails (and Reinitialized when the  *)
(* failure called initialize_rfid)                                          *)

\* the `except Exception` block entered with the locals d: the error is
\* counted and logged by severity, the loop backs off and enters
\* initialize_rfid when it is due; if self.rfid_errors does not exist yet
\* the AttributeError leaves the loop and the thread ends
Except(d) ==
    IF health.assigned < 2
    THEN /\ det' = [d EXCEPT !.consecutive_errors = @ + 1,
                             !.event = "AttributeError",
                             !.pc = "ended"]
         /\ UNCHANGED <<health, init_calls>>
    ELSE /\ health.rfid_errors < MaxErrors
         /\ det' = Failed(d)
         /\ health' = [health EXCEPT !.rfid_errors = @ + 1]
         /\ init_calls' = IF ReinitDue(d.consecutive_errors + 1)
                          THEN init_calls + 1
                          ELSE init_calls

\* top of the loop up to the call of self.reader.read_no_block()
PollStart ==
    /\ det.pc = "top"
    /\ LET d == [det EXCEPT !.event = "",
                            !.current_interval =
                                CurrentInterval(det.read_interval,
                                                det.consecutive_errors)]
       IN  IF health.assigned < 3
           THEN Except(d)
           ELSE /\ det' = [d EXCEPT !.pc = "poll"]
                /\ health' = [health EXCEPT !.rfid_reads_attempted = Bump(@)]
                /\ UNCHANGED init_calls
    /\ got' = NotCalled
    /\ UNCHANGED polled
    /\ UNCHANGED <<card_queue, hits, clock, ticks, reset>>
    /\ UNCHANGED lockerVars

\* ReadCard leaving the count of consecutive errors as it is
ReadCardKeepsStreak(id) ==
    /\ det.pc = "poll"
    /\ card_queue' = Enqueue(card_queue, ToString(id), clock)
    /\ hits' = Counted(card_queue, hits, ToString(id), clock)
    /\ LET d == [det EXCEPT !.card_id = ToString(id)]
       IN  IF health.assigned < 4
           THEN Except(d)
           ELSE /\ health' = [health EXCEPT
                                !.rfid_reads_successful = Bump(@),
                                !.last_successful_read = clock]
                /\ det' = [d EXCEPT !.pc = "top",
                                    !.event = "card",
                                    !.last_successful_read = clock,
                                    !.read_interval = FastInterval,
                                    !.slept = det.current_interval]
                /\ UNCHANGED init_calls
    /\ polled' = TRUE
    /\ got' = NotCalled
    /\ UNCHANGED <<clock, ticks, reset>>
    /\ UNCHANGED lockerVars

\* read_no_block returned the id of a card: queue it, reset the error
\* counter, poll faster, sleep
ReadCard(id) ==
    /\ det.pc = "poll"
    /\ card_queue' = Enqueue(card_queue, ToString(id), clock)
    /\ hits' = Counted(card_queue, hits, ToString(id), clock)
    /\ LET d == [det EXCEPT !.card_id = ToString(id)]
       IN  IF health.assigned < 4
           THEN Except(d)
           ELSE /\ health' = [health EXCEPT
                                !.rfid_reads_successful = Bump(@),
                                !.last_successful_read = clock]
                /\ det' = [d EXCEPT !.pc = "top",
                                    !.event = "card",
                                    !.consecutive_errors = 0,
                                    !.last_successful_read = clock,
                                    !.read_interval = FastInterval,
                                    !.slept = det.current_interval]
                /\ UNCHANGED init_calls
    /\ polled' = TRUE
    /\ got' = NotCalled
    /\ UNCHANGED <<clock, ticks, reset>>
    /\ UNCHANGED lockerVars

\* read_no_block returned the id of a card; the thread has not yet taken
\* card_read_lock
PollCard(id) ==
    /\ det.pc = "poll"
    /\ det' = [det EXCEPT !.pc = "insert", !.card_id = ToString(id)]
    /\ polled' = TRUE
    /\ got' = NotCalled
    /\ UNCHANGED <<card_queue, hits, clock, ticks, health, init_calls, reset>>
    /\ UNCHANGED lockerVars

\* the thread takes card_read_lock and queues the card it polled, then
\* resets the error counter, polls faster and sleeps
InsertCard ==
    /\ det.pc = "insert"
    /\ card_queue' = Enqueue(card_queue, det.card_id, clock)
    /\ hits' = Counted(card_queue, hits, det.card_id, clock)
    /\ IF health.assigned < 4
       THEN Except(det)
       ELSE /\ health' = [health EXCEPT
                            !.rfid_reads_successful = Bump(@),
                            !.last_successful_read = clock]
            /\ det' = [det EXCEPT !.pc = "top",
                                  !.event = "card",
                                  !.consecutive_errors = 0,
                                  !.last_successful_read = clock,
                                  !.read_interval = FastInterval,
                                  !.slept = det.current_interval]
            /\ UNCHANGED init_calls
    /\ got' = NotCalled
    /\ UNCHANGED <<clock, ticks, reset, polled>>
    /\ UNCHANGED lockerVars

\* read_no_block returned no card: relax the interval, sleep
ReadNone ==
    /\ det.pc = "poll"
    /\ det' = [det EXCEPT !.pc = "top",
                          !.event = "none",
                          !.read_interval = Relaxed(det.read_interval),
                          !.slept = det.current_interval]
    /\ got' = NotCalled
    /\ UNCHANGED polled
    /\ UNCHANGED <<card_queue, hits, clock, ticks, health, init_calls, reset>>
    /\ UNCHANGED lockerVars

\* read_no_block raised
ReadFails ==
    /\ det.pc = "poll"
    /\ Except(det)
    /\ got' = NotCalled
    /\ UNCHANGED polled
    /\ UNCHANGED <<card_queue, hits, clock, ticks, reset>>
    /\ UNCHANGED lockerVars

\* initialize_rfid called by the detector, from GPIO.cleanup to its return:
\* the relay pins are released and set up again HIGH (the loop that does it
\* ran on the same configuration in __init__), then True with a new reader
\* object, or False after SimpleMFRC522() raised; either way the loop
\* sleeps 2 s twice and goes on
Reinitialized(ok) ==
    /\ det.pc = "reinit"
    /\ relay' = SetupRelays(Cleanup(relay))
    /\ health' = [health EXCEPT !.reader = IF ok THEN @ + 1 ELSE @]
    /\ det' = [det EXCEPT !.pc = "top", !.slept = LongDelay + LongDelay]
    /\ got' = NotCalled
    /\ UNCHANGED polled
    /\ UNCHANGED <<card_queue, hits, clock, ticks, init_calls, reset>>
    /\ UNCHANGED dataVars

\* __init__ after it started the detector thread: the next of the four
\* assignments of lines 161-164
CtorStep ==
    /\ health.assigned < 4
    /\ health' =
           CASE health.assigned = 0 ->
                    [health EXCEPT !.assigned = 1, !.last_successful_read = -1]
             [] health.assigned = 1 ->
                    [health EXCEPT !.assigned = 2, !.rfid_errors = 0]
             [] health.assigned = 2 ->
                    [health EXCEPT !.assigned = 3, !.rfid_reads_attempted = 0]
             [] OTHER ->
                    [health EXCEPT !.assigned = 4, !.rfid_reads_successful = 0]
    /\ got' = NotCalled
    /\ UNCHANGED polled
    /\ UNCHANGED <<card_queue, hits, clock, ticks, det, init_calls, reset>>
    /\ UNCHANGED lockerVars

\* GET /api/read-card: get_last_card
GetLastCard ==
    /\ got' = GetLastCardAt(card_queue, clock)
    /\ UNCHANGED polled
    /\ UNCHANGED <<card_queue, hits, clock, ticks, det, health, init_calls,
                   reset>>
    /\ UNCHANGED lockerVars

\* POST /api/clear-card-queue: clear_card_queue
ClearCardQueue ==
    /\ card_queue' = << >>
    /\ hits' = << >>
    /\ polled' = FALSE
    /\ got' = NotCalled
    /\ UNCHANGED <<clock, ticks, det, health, init_calls, reset>>
    /\ UNCHANGED lockerVars

\* d seconds pass
Tick(d) ==
    /\ ticks < MaxTicks
    /\ clock' = clock + d
    /\ ticks' = ticks + 1
    /\ got' = NotCalled
    /\ UNCHANGED polled
    /\ UNCHANGED <<card_queue, hits, det, health, init_calls, reset>>
    /\ UNCHANGED lockerVars

\* POST /api/reset-rfid-reader: the handler enters initialize_rfid
\* (GPIO.cleanup, then a sleep of one second)
ResetBegin ==
    /\ reset.pc = "idle"
    /\ reset.calls < MaxResets
    /\ reset' = [reset EXCEPT !.pc = "init", !.calls = @ + 1]
    /\ relay' = Cleanup(relay)
    /\ got' = NotCalled
    /\ UNCHANGED polled
    /\ UNCHANGED <<card_queue, hits, clock, ticks, det, health, init_calls>>
    /\ UNCHANGED dataVars

\* POST /api/reset-rfid-reader: initialize_rfid sets the relay pins up
\* again HIGH, creates the reader (ok) or catches what SimpleMFRC522()
\* raised, and the handler answers with its result
ResetEnd(ok) ==
    /\ reset.pc = "init"
    /\ reset' = [reset EXCEPT !.pc = "idle", !.ok = ok]
    /\ relay' = SetupRelays(relay)
    /\ health' = [health EXCEPT !.reader = IF ok THEN @ + 1 ELSE @]
    /\ got' = NotCalled
    /\ UNCHANGED polled
    /\ UNCHANGED <<card_queue, hits, clock, ticks, det, init_calls>>
    /\ UNCHANGED dataVars

\* the id an entry of the queue was made from
IdOf(entry) == CHOOSE id \in ReaderIds : ToString(id) = entry.card_id

\* cards presented while the queue is explored: the one queued first and
\* the card numbered one higher than every card in the queue
Presented ==
    LET queued == {IdOf(card_queue[i]) : i \in 1..Len(card_queue)}
        next == IF queued = {} THEN 1
                ELSE 1 + CHOOSE q \in queued : \A r \in queued : r <= q
    IN  (IF Len(card_queue) = 0 THEN {} ELSE {IdOf(card_queue[1])})
        \cup ({next} \cap ReaderIds)

\* a step of the detector thread, one card on the reader
DetectorStep ==
    \/ PollStart
    \/ ReadCard(1)
    \/ ReadNone
    \/ ReadFails
    \/ \E ok \in BOOLEAN : Reinitialized(ok)

\* the detector and a caller of get_last_card
NextDetector ==
    \/ DetectorStep
    \/ GetLastCard

SpecDetector == Init /\ [][NextDetector]_vars

\* the detector thread running while __init__ finishes
NextStart ==
    \/ CtorStep
    \/ DetectorStep

SpecStart == InitStart /\ [][NextStart]_vars

\* the detector, the clock and the callers of the cache
NextCache ==
    \/ PollStart
    \/ \E id \in Presented : ReadCard(id)
    \/ \E d \in {1, card_validity_window} : Tick(d)
    \/ GetLastCard
    \/ ClearCardQueue

SpecCache == Init /\ [][NextCache]_vars

\* the detector and a manual reset request
NextReset ==
    \/ DetectorStep
    \/ ResetBegin
    \/ \E ok \in BOOLEAN : ResetEnd(ok)

SpecReset == Init /\ [][NextReset]_vars

\* worker threads serving drop-offs while a reset_rfid_reader request
\* runs initialize_rfid
NextHold ==
    \/ \E h \in Handlers, card \in ConcCards, wash \in ConcWashParams,
          net \in ServerUp :
           BeginDropOff(h, card, wash, net)
    \/ \E h \in Handlers : ThreadDropOffCheck(h)
    \/ \E h \in Handlers : ThreadDropOffPool(h)
    \/ \E h \in Handlers : ThreadDropOffWash(h)
    \/ \E h \in Handlers : ThreadAssignCheck(h)
    \/ \E h \in Handlers : ThreadAssignAvail(h)
    \/ \E h \in Handlers : ThreadAssignWash(h)
    \/ \E h \in Handlers : ThreadAssignActive(h)
    \/ \E h \in Handlers : ThreadAssignRemove(h)
    \/ \E h \in Handlers : ThreadAssignAppend(h)
    \/ \E h \in Handlers : ThreadAssignSave(h)
    \/ \E h \in Handlers : ThreadDropOffUnlock(h)
    \/ \E h \in Handlers : ThreadDropOffRelock(h)
    \/ ResetBegin
    \/ \E ok \in BOOLEAN : ResetEnd(ok)

SpecHold == Init /\ [][NextHold]_vars

\* worker threads serving drop-offs of one card step by step, and pick-ups
\* of that card served without interruption in between
NextDrift ==
    \/ \E h \in Handlers, card \in DriftCards, wash \in ConcWashParams,
          net \in ServerUp :
           BeginDropOff(h, card, wash, net)
    \/ \E h \in Handlers : ThreadDropOffCheck(h)
    \/ \E h \in Handlers : ThreadDropOffPool(h)
    \/ \E h \in Handlers : ThreadDropOffWash(h)
    \/ \E h \in Handlers : ThreadAssignCheck(h)
    \/ \E h \in Handlers : ThreadAssignAvail(h)
    \/ \E h \in Handlers : ThreadAssignWash(h)
    \/ \E h \in Handlers : ThreadAssignActive(h)
    \/ \E h \in Handlers : ThreadAssignRemove(h)
    \/ \E h \in Handlers : ThreadAssignAppend(h)
    \/ \E h \in Handlers : ThreadAssignSave(h)
    \/ \E h \in Handlers : ThreadDropOffUnlock(h)
    \/ \E h \in Handlers : ThreadDropOffRelock(h)
    \/ \E card \in DriftCards, net \in ServerUp : PickUp(card, net)

SpecDrift == Init /\ [][NextDrift]_vars

\* the detector polling card after card while the cache is read and cleared
NextClear ==
    \/ PollStart
    \/ \E id \in Presented : PollCard(id)
    \/ InsertCard
    \/ GetLastCard
    \/ ClearCardQueue

SpecClear == Init /\ [][NextClear]_vars

----------------------------------------------------------------------------
(* Properties *)

\* card ids that can be keys of active_cards or card ids of transactions
CardIds == {Strip(c) : c \in Cards}

\* indices of the transactions of card c that are not completed
OpenTx(tx, c) ==
    {i \in 1..Len(tx) : tx[i].card_id = c /\ tx[i].status # "completed"}

\* the keys of active cards ac that reference locker k
Holders(ac, k) == {c \in DOMAIN ac : ac[c].locker_id = k}

\* the positions of locker k in the pool av
Slots(av, k) == {i \in 1..Len(av) : av[i] = k}

\* C1: with calls executed one at a time, a card id is a key of
\* active_cards if and only if exactly one transaction with that card id
\* has a status other than completed.
C1_ActiveIffOneOpenTx ==
    \A c \in CardIds :
        (c \in DOMAIN active_cards) <=>
            (Cardinality(OpenTx(transactions, c)) = 1)

\* C1 witness: a card is active while another transaction is completed.
C1_Witness ==
    /\ DOMAIN active_cards # {}
    /\ \E i \in 1..Len(transactions) : transactions[i].status = "completed"
    /\ C1_ActiveIffOneOpenTx

\* C2: with calls executed one at a time, every configured locker is either
\* listed exactly once in available_lockers and referenced by no active
\* card, or listed nowhere and referenced by exactly one active card.
C2_LockerFreeXorOccupied ==
    \A k \in Lockers :
        LET free == Cardinality(Slots(available_lockers, k))
            used == Cardinality(Holders(active_cards, k))
        IN  \/ free = 1 /\ used = 0
            \/ free = 0 /\ used = 1

\* C2 witness: a locker is occupied after another one went back to the
\* pool behind it (the pool is no longer in configuration order).
C2_Witness ==
    /\ \E k \in Lockers : Holders(active_cards, k) # {}
    /\ \E i \in 1..Len(available_lockers) : available_lockers[i] # LockerIds[i]
    /\ C2_LockerFreeXorOccupied

\* C3 (as claimed): with concurrent drop-offs for different cards, no locker
\* id is referenced by the active_cards entries of two different cards.
C3_NoSharedLocker ==
    \A c1, c2 \in DOMAIN active_cards :
        Lower(c1) # Lower(c2) =>
            active_cards[c1].locker_id # active_cards[c2].locker_id

\* C4 (as claimed): with concurrent drop-offs for the same card id, the
\* card never has more than one transaction that is not completed.
C4_AtMostOneOpenTx ==
    \A c \in CardIds : Cardinality(OpenTx(transactions, c)) <= 1

\* C5: a drop-off that returns failure leaves active_cards,
\* available_lockers, the transaction list and the persisted file as they
\* were before the call.
C5_FailedAssignChangesNothing ==
    [][ (last'.op = "drop_off" /\ ~last'.ok) =>
            /\ UNCHANGED <<active_cards, available_lockers, transactions>>
            /\ UNCHANGED disk ]_vars

\* C5 witness: a drop-off was refused (for a card that is active, for want
\* of a locker, or for an unknown wash type) while the file on disk lags
\* behind the state in memory.
C5_Witness ==
    /\ last.op = "drop_off"
    /\ ~last.ok
    /\ disk # Data(active_cards, transactions, available_lockers)

\* C6: a successful drop-off takes the first locker of available_lockers
\* out of the pool, appends one pending transaction for the card and that
\* locker, and maps the card to that locker and that transaction's id;
\* the other active cards and the earlier transactions are unchanged.
C6_AssignEffect ==
    [][ (last'.op = "drop_off" /\ last'.ok) =>
            LET card   == Strip(last'.card)
                locker == Head(available_lockers)
                n      == Len(transactions)
            IN  /\ available_lockers # << >>
                /\ available_lockers' = Tail(available_lockers)
                /\ Len(transactions') = n + 1
                /\ SubSeq(transactions', 1, n) = transactions
                /\ transactions'[n + 1].status = "pending"
                /\ transactions'[n + 1].card_id = card
                /\ transactions'[n + 1].locker_id = locker
                /\ \A i \in 1..n :
                       transactions[i].transaction_id #
                           transactions'[n + 1].transaction_id
                /\ DOMAIN active_cards' = DOMAIN active_cards \cup {card}
                /\ card \notin DOMAIN active_cards
                /\ active_cards'[card] =
                       [locker_id |-> locker,
                        transaction_id |->
                            transactions'[n + 1].transaction_id]
                /\ \A c \in DOMAIN active_cards :
                       active_cards'[c] = active_cards[c] ]_vars

\* C6 witness: a drop-off succeeded from a pool that was not in
\* configuration order and with an earlier transaction on record.
C6_Witness ==
    /\ last.op = "drop_off"
    /\ last.ok
    /\ Len(transactions) >= 2
    /\ \E c \in DOMAIN active_cards :
           /\ active_cards[c].locker_id # LockerIds[1]
           /\ active_cards[c].transaction_id =
                  transactions[Len(transactions)].transaction_id

----------------------------------------------------------------------------

\* the keys of active cards ac that equal card id c ignoring letter case
Matching(ac, c) == {k \in DOMAIN ac : Lower(k) = Lower(c)}

\* C7: a pick-up for a card that has an active_cards entry (under its exact
\* id or one that differs in letter case only) whose transaction id is in
\* the transaction list returns success; afterwards that transaction is
\* completed with pickup_time set, the entry is gone and its locker is in
\* available_lockers.
C7_PickupPrimary ==
    [][ last'.op = "pick_up" =>
            \A k \in Matching(active_cards, last'.card) :
                \A i \in 1..Len(transactions) :
                    transactions[i].transaction_id =
                        active_cards[k].transaction_id
                    => /\ last'.ok
                       /\ transactions'[i].status = "completed"
                       /\ transactions'[i].pickup_time # 0
                       /\ k \notin DOMAIN active_cards'
                       /\ InList(available_lockers',
                                 active_cards[k].locker_id) ]_vars

\* C7 witness: a pick-up presented "a1" while the card was stored as "A1",
\* and succeeded.
C7_Witness ==
    /\ last.op = "pick_up"
    /\ last.ok
    /\ last.card = "a1"
    /\ \A i \in 1..Len(transactions) : transactions[i].card_id # "a1"
    /\ \E i \in 1..Len(transactions) :
           /\ transactions[i].card_id = "A1"
           /\ transactions[i].status = "completed"
    /\ "A1" \notin DOMAIN active_cards

\* C8: a pick-up for a card without any active_cards entry (exact or
\* ignoring letter case) returns the failure "not associated with any
\* locker" and changes neither available_lockers nor active_cards nor any
\* transaction.
C8_PickupWithoutAssignment ==
    [][ (last'.op = "pick_up" /\ Matching(active_cards, last'.card) = {}) =>
            /\ ~last'.ok
            /\ last'.msg = "Card not associated with any locker"
            /\ UNCHANGED <<available_lockers, active_cards, transactions>>
      ]_vars

\* C8 witness: a pick-up failed for a card whose transaction is already
\* completed (a second pick-up after a successful one).
C8_Witness ==
    /\ last.op = "pick_up"
    /\ ~last.ok
    /\ last.msg = "Card not associated with any locker"
    /\ \E i \in 1..Len(transactions) :
           /\ transactions[i].card_id = last.card
           /\ transactions[i].status = "completed"

\* C9: every transaction enters the list as pending; the only change of
\* status is pending to completed and a pick-up makes it; no transaction
\* is processing; none leaves the list, whose length never decreases.
C9_TransactionLifecycle ==
    [][ /\ Len(transactions') >= Len(transactions)
        /\ \A i \in 1..Len(transactions) :
               /\ transactions'[i].transaction_id =
                      transactions[i].transaction_id
               /\ \/ transactions'[i].status = transactions[i].status
                  \/ /\ transactions[i].status = "pending"
                     /\ transactions'[i].status = "completed"
                     /\ last'.op = "pick_up"
        /\ \A i \in (Len(transactions) + 1)..Len(transactions') :
               transactions'[i].status = "pending"
        /\ \A i \in 1..Len(transactions') :
               transactions'[i].status \in {"pending", "completed"} ]_vars

\* C9 witness: the list holds a completed transaction followed by a
\* pending one.
C9_Witness ==
    \E i, j \in 1..Len(transactions) :
        /\ i < j
        /\ transactions[i].status = "completed"
        /\ transactions[j].status = "pending"

\* C10 (as claimed): once a transaction is completed no operation changes
\* any of its fields, also with concurrent pick-ups for the same card.
C10_CompletedIsFrozen ==
    [][ \A i \in 1..Len(transactions) :
            transactions[i].status = "completed" =>
                /\ i <= Len(transactions')
                /\ transactions'[i] = transactions[i] ]_vars

----------------------------------------------------------------------------
(* Properties of the card cache *)

\* the step is a poll of the detector that returned a card
CardWasRead == det.pc = "poll" /\ det'.event = "card"

\* positions of the entries of card_id younger than the dedup window
Young(card_id) ==
    {i \in 1..Len(card_queue) :
        /\ card_queue[i].card_id = card_id
        /\ SecondsDiff(card_queue[i], clock) < DedupWindow}

\* positions of the entries that stand for more than one read and are
\* inside the validity window
Repeated ==
    {i \in 1..Len(card_queue) :
        /\ hits[i] > 1
        /\ SecondsDiff(card_queue[i], clock) <= card_validity_window}

\* positions of the entries inside the validity window
Valid ==
    {i \in 1..Len(card_queue) :
        SecondsDiff(card_queue[i], clock) <= card_validity_window}

\* C11: a read of a card that has an entry younger than 2 seconds adds no
\* entry, refreshes that entry's timestamp and adds one to its read_count;
\* a read of a card without such an entry appends an entry with
\* read_count = 1.
C11_DedupCountsReads ==
    [][CardWasRead =>
         IF Young(det'.card_id) # {}
         THEN /\ Len(card_queue') = Len(card_queue)
              /\ \A i \in Young(det'.card_id) :
                     card_queue' =
                         [card_queue EXCEPT
                            ![i] = [card_id |-> det'.card_id,
                                    timestamp |-> IsoFormat(clock),
                                    read_count |-> card_queue[i].read_count + 1]]
         ELSE card_queue'[Len(card_queue')] =
                  [card_id |-> det'.card_id, timestamp |-> IsoFormat(clock),
                   read_count |-> 1]
      ]_vars

\* C12: get_last_card returns the newest entry that was read repeatedly
\* and is inside the validity window whenever there is one, also when a
\* newer entry of a card read once exists.
C12_RepeatedReadWins ==
    (got # NotCalled /\ Repeated # {}) =>
        \E i \in Repeated :
            /\ \A j \in Repeated : j <= i
            /\ got = card_queue[i]

\* C13: when no entry with read_count > 1 is inside the validity window,
\* get_last_card returns an entry with the most recent timestamp of the
\* whole cache if that timestamp is inside the window and none otherwise.
C13_FallbackIsNewest ==
    (got # NotCalled /\ MultiReadIndex(card_queue, clock, Len(card_queue)) = 0) =>
        IF Valid = {} THEN got = None
        ELSE /\ got # None
             /\ \A i \in 1..Len(card_queue) :
                    FromIsoFormat(card_queue[i].timestamp) <=
                        FromIsoFormat(got.timestamp)

\* C14: after every insertion the cache holds at most 10 entries, and the
\* entry evicted by an 11th one has the oldest timestamp of the cache.
C14_EvictsOldestTimestamp ==
    [][CardWasRead =>
         /\ Len(card_queue') <= QueueCap
         /\ (/\ Len(card_queue) = QueueCap
             /\ Tail(card_queue) = SubSeq(card_queue', 1, QueueCap - 1))
            => \A i \in 1..Len(card_queue) :
                   FromIsoFormat(card_queue[1].timestamp) <=
                       FromIsoFormat(card_queue[i].timestamp)
      ]_vars

----------------------------------------------------------------------------
(* Properties of the detector loop *)

\* C15: the detector calls initialize_rfid at a failing poll exactly when
\* the count of consecutive failures is then a positive multiple of 20 and
\* at no other step; 25 failures in a row from the start give exactly one
\* call.
C15_ReinitEveryTwentieth ==
    [][/\ init_calls' \in {init_calls, init_calls + 1}
       /\ (init_calls' = init_calls + 1) <=>
              /\ health'.rfid_errors = health.rfid_errors + 1
              /\ det'.consecutive_errors > 0
              /\ det'.consecutive_errors % 20 = 0
       /\ (det'.consecutive_errors = 25 /\ health'.rfid_errors = 25)
              => init_calls' = 1
      ]_vars

\* 25 failures in a row since the start, one call of initialize_rfid made
C15_Witness ==
    /\ det.consecutive_errors = 25
    /\ health.rfid_errors = 25
    /\ init_calls = 1

\* C16: whatever the polls and initialize_rfid do, the detector loop never
\* ends: no exception leaves rfid_reader_loop.
C16_DetectorNeverEnds == det.pc # "ended"

\* C17: no thread is inside initialize_rfid while the detector thread is
\* inside a poll of the reader, also when initialize_rfid is called by a
\* reset_rfid_reader request.
C17_InitExcludesPoll == ~(reset.pc = "init" /\ det.pc = "poll")

----------------------------------------------------------------------------
(* Properties of persistence, telemetry and the order of the checks *)

\* C18: a call whose write of DB_FILE fails still returns success, and the
\* changes it made in memory stay: after a drop-off the card is active,
\* its locker has left the pool and the history is one entry longer; after
\* a pick-up the card's entry is gone and its locker is in the pool.
C18_SaveFailureKeepsChanges ==
    [][save_errors' = save_errors + 1 =>
         /\ last'.ok
         /\ last'.op = "drop_off" =>
                /\ Strip(last'.card) \notin DOMAIN active_cards
                /\ Strip(last'.card) \in DOMAIN active_cards'
                /\ InList(available_lockers,
                          active_cards'[Strip(last'.card)].locker_id)
                /\ ~InList(available_lockers',
                           active_cards'[Strip(last'.card)].locker_id)
                /\ Len(transactions') = Len(transactions) + 1
         /\ last'.op = "pick_up" =>
                \E k \in DOMAIN active_cards :
                    /\ DOMAIN active_cards' = DOMAIN active_cards \ {k}
                    /\ InList(available_lockers', active_cards[k].locker_id)
                    /\ Len(transactions') = Len(transactions)
      ]_vars

\* a pick-up has returned success although its write of DB_FILE failed,
\* and memory is ahead of the file
C18_Witness ==
    /\ save_errors > 0
    /\ last.op = "pick_up"
    /\ last.ok
    /\ disk # Data(active_cards, transactions, available_lockers)

\* C19: a call whose telemetry call fails returns what it returns, and
\* leaves memory and file as it leaves them, when the telemetry call
\* succeeds.
C19_TelemetryFailureIsInvisible ==
    [][last'.sync = "failed" =>
         /\ last'.ok
         /\ \E wash \in WashParams :
            \E o \in Run(Shared,
                         IF last'.op = "drop_off"
                         THEN StartDropOff(last'.card, wash, "200")
                         ELSE StartPickUp(last'.card, "200")) :
                /\ o[2].sync = "sent"
                /\ o[2].ok = last'.ok
                /\ o[2].msg = last'.msg
                /\ o[1].active_cards = active_cards'
                /\ o[1].available_lockers = available_lockers'
                /\ o[1].transactions = transactions'
                /\ o[1].disk = disk'
      ]_vars

\* a drop-off has returned success although its telemetry call failed
C19_Witness ==
    /\ last.op = "drop_off"
    /\ last.sync = "failed"
    /\ last.ok
    /\ Strip(last.card) \in DOMAIN active_cards

\* C20: a drop-off reports the earliest failing check in the order card
\* already assigned, no locker available, wash type unknown: an active
\* card is refused as already assigned also when the pool is empty, an
\* empty pool is reported whatever the wash type, and an unknown wash type
\* is reported only for a card that is not assigned and a pool that is not
\* empty.
C20_ChecksInOrder ==
    [][last'.op = "drop_off" =>
         /\ Strip(last'.card) \in DOMAIN active_cards =>
                /\ ~last'.ok
                /\ last'.msg = "This card already has clothes in locker"
         /\ (/\ ~CheckCardAlreadyAssigned(Shared, Strip(last'.card))
             /\ Len(available_lockers) = 0) =>
                /\ ~last'.ok
                /\ last'.msg = "No lockers available"
         /\ last'.msg = "Invalid wash type" =>
                /\ ~last'.ok
                /\ ~CheckCardAlreadyAssigned(Shared, Strip(last'.card))
                /\ Len(available_lockers) # 0
      ]_vars

\* a drop-off of an active card was refused as already assigned while the
\* pool was empty
C20_Witness ==
    /\ last.op = "drop_off"
    /\ Strip(last.card) \in DOMAIN active_cards
    /\ Len(available_lockers) = 0
    /\ last.msg = "This card already has clothes in locker"

----------------------------------------------------------------------------
(* Properties of the detector's counters and timing *)

\* the step is a poll of the detector that raised
PollRaised ==
    /\ det.pc = "poll"
    /\ det'.event \in {"warning", "error", "critical"}

\* C25: a poll that returns a card sets the count of consecutive errors to
\* zero and records the time of the read; a poll that raises adds exactly
\* one to the count of consecutive errors and to the cumulative count of
\* errors; the count changes at no other step, so initialize_rfid is
\* called only once at least 20 polls have raised since the last card.
C25_CardResetsStreak ==
    [][/\ CardWasRead =>
              /\ det'.consecutive_errors = 0
              /\ det'.last_successful_read = clock
              /\ health'.last_successful_read = clock
       /\ PollRaised =>
              /\ det'.consecutive_errors = det.consecutive_errors + 1
              /\ health'.rfid_errors = health.rfid_errors + 1
       /\ ~(CardWasRead \/ PollRaised) =>
              /\ det'.consecutive_errors = det.consecutive_errors
              /\ health'.rfid_errors = health.rfid_errors
       /\ init_calls' # init_calls => det'.consecutive_errors >= ReinitEvery
      ]_vars

\* five polls raised, a card was read, twenty more polls raised and
\* initialize_rfid has been called for the first time
C25_Witness ==
    /\ health.last_successful_read = clock
    /\ health.rfid_errors = 25
    /\ det.consecutive_errors = 20
    /\ init_calls = 1

\* the detector has just waited after a poll that raised
WaitedAfterFailure ==
    /\ det.pc = "top"
    /\ det.event \in {"warning", "error", "critical"}

\* C26 (as claimed): the time the detector waits after a failing poll never
\* gets shorter as the streak of errors gets longer.
C26_DelayNeverShrinks ==
    (WaitedAfterFailure /\ det.consecutive_errors >= 2) =>
        det.slept >= Backoff(det.consecutive_errors - 1)

\* C26 (amended): the wait after a failing poll is 0.5 s and the severity
\* a warning for streaks 1 to 4, 1 s and an error for streaks 5 to 19, at
\* least 2 s and critical from streak 20 on; within the last tier it is
\* 4 s after the failures that call initialize_rfid (streaks 20, 40, ...)
\* and 2 s after the others.
C26_DelayByTier ==
    WaitedAfterFailure =>
        LET n == det.consecutive_errors
        IN  /\ n >= 1
            /\ det.slept = Backoff(n)
            /\ n < 5 => det.event = "warning" /\ det.slept = 500000
            /\ (n >= 5 /\ n < 20) => det.event = "error" /\ det.slept = 1000000
            /\ n >= 20 =>
                   /\ det.event = "critical"
                   /\ det.slept = IF n % 20 = 0 THEN 4000000 ELSE 2000000

\* the detector has waited 2 s after the 21st failure in a row, having
\* called initialize_rfid after the 20th
C26_Witness ==
    /\ WaitedAfterFailure
    /\ det.consecutive_errors = 21
    /\ det.slept = LongDelay
    /\ init_calls = 1

\* the step ends an iteration of the loop whose poll did not raise
IterationEnds == det.pc = "poll" /\ det'.event \in {"card", "none"}

\* C27: read_interval stays between 50 ms and 100 ms; a poll that returns
\* a card sets it to 50 ms, a poll that returns no card raises it without
\* passing 100 ms; an iteration whose poll did not raise sleeps the
\* interval it began with times (1 + min(consecutive_errors, 5)), which is
\* at most 6 times 100 ms.
C27_IntervalBounded ==
    [][/\ det'.read_interval >= FastInterval
       /\ det'.read_interval <= BaseInterval
       /\ CardWasRead => det'.read_interval = FastInterval
       /\ (det.pc = "poll" /\ det'.event = "none") =>
              /\ det'.read_interval >= det.read_interval
              /\ det.read_interval < BaseInterval =>
                     det'.read_interval > det.read_interval
       /\ IterationEnds =>
              /\ det'.slept =
                     det.read_interval *
                         (1 + IF det.consecutive_errors < 5
                              THEN det.consecutive_errors ELSE 5)
              /\ det'.slept <= 6 * BaseInterval
       /\ ~(det.pc = "poll") => det'.read_interval = det.read_interval
      ]_vars

\* after five failures a poll found no card and the loop slept six times
\* an interval that is on its way back from 50 ms to 100 ms
C27_Witness ==
    /\ det.event = "none"
    /\ det.consecutive_errors >= 5
    /\ det.read_interval > FastInterval
    /\ det.read_interval < BaseInterval
    /\ det.slept > 3 * BaseInterval

----------------------------------------------------------------------------
(* Properties of the detector's independence and of the cache's lock *)

\* handler h is inside the hold of unlock_locker for a configured locker
Holding(h) ==
    /\ hl[h].pc \in {"do_relock", "pu_relock", "fa_relock"}
    /\ hl[h].locker_id \in Lockers

\* the step belongs to the detector thread or to initialize_rfid
DetectorOrInit == det' # det \/ reset' # reset \/ health' # health

\* C23 (as claimed): no step of the detector and no step of
\* initialize_rfid changes active_cards, available_lockers or
\* transactions, and none changes the relay of a locker that a request
\* handler is holding unlocked.
C23_DetectorLeavesOthersAlone ==
    [][DetectorOrInit =>
         /\ UNCHANGED <<active_cards, available_lockers, transactions>>
         /\ \A h \in Handlers :
                (Holding(h) /\ relay[hl[h].locker_id] = "LOW") =>
                    relay'[hl[h].locker_id] = "LOW"
      ]_vars

\* C24 (as claimed): the cache is never seen with more than 10 entries,
\* and a get_last_card that returns a card does so only when a poll has
\* returned a card since clear_card_queue last returned.
C24_CacheStepsAreAtomic ==
    /\ Len(card_queue) <= QueueCap
    /\ got \notin {None, NotCalled} => polled

\* C22 (as claimed): with concurrent handlers, a locker whose relay a
\* handler is holding unlocked is not in available_lockers, and no two
\* handlers hold the relay of the same locker at the same time.
C22_HoldIsExclusive ==
    \A h \in Handlers :
        Holding(h) =>
            /\ ~InList(available_lockers, hl[h].locker_id)
            /\ \A g \in Handlers \ {h} :
                   Holding(g) => hl[g].locker_id # hl[h].locker_id

\* in the snapshot d every active card's locker is absent from the pool
\* and every active card's transaction is in the list
SnapshotIsConsistent(d) ==
    \A c \in DOMAIN d.active_cards :
        /\ ~InList(d.available_lockers, d.active_cards[c].locker_id)
        /\ \E i \in 1..Len(d.transactions) :
               d.transactions[i].transaction_id =
                   d.active_cards[c].transaction_id

\* C30 (as claimed): the content of DB_FILE is always a complete snapshot
\* in which every active card's locker is absent from available_lockers
\* and every active card's transaction is in the transaction list, also
\* with concurrent handlers and also after a save that failed part-way.
C30_PersistedIsConsistent ==
    /\ disk # Torn
    /\ SnapshotIsConsistent(disk)

----------------------------------------------------------------------------
(* Properties of the duplicate rule and of the fallbacks of process_pickup *)

\* card id c, white space stripped, equals a key of active_cards exactly or
\* ignoring letter case, or equals ignoring letter case the card id of a
\* transaction that is not completed
IsDuplicate(c) ==
    \/ c \in DOMAIN active_cards
    \/ \E k \in DOMAIN active_cards : Lower(k) = Lower(c)
    \/ \E i \in 1..Len(transactions) :
           /\ transactions[i].status # "completed"
           /\ Lower(transactions[i].card_id) = Lower(c)

\* the messages of a drop-off refused as a duplicate
DuplicateMessages ==
    {"This card already has clothes in locker",
     "Card already assigned to another locker"}

\* C21: where drop_off and assign_card_to_locker check the card (its id
\* stripped of white space), the request is refused as a duplicate if the
\* id equals an active_cards key exactly or ignoring letter case, or
\* equals ignoring letter case the card id of a transaction that is not
\* completed, and it passes the check if none of the three holds.
C21_DuplicateRule ==
    [][\A h \in Handlers :
           (hl[h].pc \in {"do_check", "as_check"} /\ hl'[h] # hl[h]) =>
               IF IsDuplicate(Strip(hl[h].card))
               THEN /\ hl'[h].pc = "idle"
                    /\ last'.card = hl[h].card
                    /\ ~last'.ok
                    /\ last'.msg \in DuplicateMessages
               ELSE hl'[h].pc \in {"do_pool", "as_avail"}
      ]_vars

\* a drop-off was refused as a duplicate for a card that is no key of
\* active_cards in any spelling: only a transaction that is not completed
\* stands against it
C21_Witness ==
    /\ last.op = "drop_off"
    /\ last.msg \in DuplicateMessages
    /\ \A k \in DOMAIN active_cards : Lower(k) # Lower(Strip(last.card))
    /\ IsDuplicate(Strip(last.card))

\* the step serves a pick-up from request to response (every step of a
\* drop-off thread changes that thread's locals)
PickupServed == last'.op = "pick_up" /\ UNCHANGED hl

\* the active_cards key the pick-up of card resolves to has an entry whose
\* transaction id is in no transaction
Drifted(card) ==
    /\ ResolveCard(Shared, card) # ""
    /\ \A i \in 1..Len(transactions) :
           transactions[i].transaction_id #
               active_cards[ResolveCard(Shared, card)].transaction_id

\* C28 (as claimed): a pick-up of a card whose active_cards entry names a
\* transaction id that is in no transaction, while a transaction of the
\* card is not completed, returns success, completes that transaction
\* with pickup_time set, removes the entry, and the locker the entry
\* referenced is in available_lockers afterwards.
C28_FallbackByCard ==
    [][(/\ PickupServed
        /\ Drifted(last'.card)
        /\ OpenTx(transactions, ResolveCard(Shared, last'.card)) # {}) =>
           LET k == ResolveCard(Shared, last'.card)
           IN  /\ last'.ok
               /\ \E i \in OpenTx(transactions, k) :
                      /\ transactions'[i].status = "completed"
                      /\ transactions'[i].pickup_time # 0
               /\ k \notin DOMAIN active_cards'
               /\ InList(available_lockers', active_cards[k].locker_id)
      ]_vars

\* C29: a pick-up of a card whose active_cards entry names a transaction
\* id that is in no transaction, while no transaction of the card is open,
\* returns success, removes the entry, has the entry's locker in
\* available_lockers, writes DB_FILE (unless the write fails) and leaves
\* the transaction list as it was.
C29_ResetLeavesTransactions ==
    [][(/\ PickupServed
        /\ Drifted(last'.card)
        /\ OpenTx(transactions, ResolveCard(Shared, last'.card)) = {}) =>
           LET k == ResolveCard(Shared, last'.card)
           IN  /\ last'.ok
               /\ last'.msg = "Locker unlocked and reset"
               /\ active_cards' = DictDel(active_cards, k)
               /\ InList(available_lockers', active_cards[k].locker_id)
               /\ \A x \in Lockers :
                      x # active_cards[k].locker_id =>
                          (InList(available_lockers', x) <=>
                               InList(available_lockers, x))
               /\ transactions' = transactions
               /\ \/ disk' = Data(active_cards', transactions',
                                  available_lockers')
                  \/ save_errors' = save_errors + 1
      ]_vars

\* a pick-up has reset a card whose transaction was not yet in the list,
\* the locker was out of the pool before and is back in it, and the file
\* holds the state after the reset
C29_Witness ==
    /\ last.op = "pick_up"
    /\ last.msg = "Locker unlocked and reset"
    /\ active_cards = << >>
    /\ Len(available_lockers) = NumLockers
    /\ available_lockers # LockerIds
    /\ disk = Data(active_cards, transactions, available_lockers)

----------------------------------------------------------------------------
(* Properties of start-up and of the pick-up paths *)

\* __init__ executes one of the assignments of lines 161-164 in this step
CtorAssigns == health'.assigned = health.assigned + 1

\* C31: while __init__ finishes beside the detector thread it started,
\* every health attribute exists when the detector uses it: the increment
\* of rfid_reads_attempted at the top of the loop goes through to the
\* poll, a card that was queued is counted as a successful read, the
\* thread does not end, and an assignment of __init__ never replaces a
\* count or a read time the detector has recorded.
C31_HealthReadyBeforeUse ==
    [][/\ det'.pc # "ended"
       /\ (det.pc = "top" /\ det' # det) => det'.pc = "poll"
       /\ (det.pc = "poll" /\ card_queue' # card_queue) => det'.event = "card"
       /\ CtorAssigns =>
              /\ health.assigned >= 1 \/ health.last_successful_read = -1
              /\ health.assigned >= 2 \/ health.rfid_errors = -1
              /\ health.assigned >= 3 \/ health.rfid_reads_attempted = -1
              /\ health.assigned >= 4 \/ health.rfid_reads_successful = -1
      ]_vars

\* the answers of process_pickup that do not come from a fallback
PrimaryAnswers ==
    {"Clothes picked up from locker", "Card not associated with any locker"}

\* C32: from the default state, with drop-offs and pick-ups served one at
\* a time, the transaction id of every active_cards entry is the id of a
\* transaction in the list, and no pick-up answers through the fallback by
\* card id, the reset or "Transaction not found".
C32_PrimaryPathOnly ==
    [][/\ \A k \in DOMAIN active_cards' :
              \E i \in 1..Len(transactions') :
                  transactions'[i].transaction_id =
                      active_cards'[k].transaction_id
       /\ last'.op = "pick_up" => last'.msg \in PrimaryAnswers
      ]_vars

\* a card was picked up for the second time, through the primary path,
\* while another card is still active
C32_Witness ==
    /\ last.op = "pick_up"
    /\ last.ok
    /\ last.msg = "Clothes picked up from locker"
    /\ active_cards # << >>
    /\ Cardinality({i \in 1..Len(transactions) :
                        /\ Lower(transactions[i].card_id) = Lower(last.card)
                        /\ transactions[i].status = "completed"}) = 2

\* what a handler ends with when an exception leaves it
Exceptions == {"KeyError", "RuntimeError"}

\* C33: with pick-ups and drop-offs interleaved, a pick-up always ends by
\* returning a result and never by raising; of two pick-ups of one card
\* the later one answers with a failure and does not fail on the entry
\* the other has removed from active_cards.
C33_PickupNeverRaises == ~(last.op = "pick_up" /\ last.msg \in Exceptions)

====
